---- MODULE Spec2Model ----
(***************************************************************************)
(* Model of gwsurrogate/new/nodeFunction.py: the node-function variants,   *)
(* the NODE_CLASSES registry and the NodeFunction holder.                   *)
(*                                                                         *)
(* Numbers are exact rationals (records n/d in lowest terms); np.log, the  *)
(* closed-form parametric functions and the fit evaluators are opaque and  *)
(* are modelled as uninterpreted terms over their arguments.               *)
(***************************************************************************)
EXTENDS Integers, Sequences, FiniteSets, TLC

VARIABLES holder, filters, last

vars == <<holder, filters, last>>

\* Longest input vector handed to an evaluation.
MaxLen == 3

(***************************************************************************)
(* Values                                                                  *)
(***************************************************************************)
\* Python's None, where a value or an object is expected.
NoneV == [k |-> "None"]

\* "No value was returned" (the call raised).
NoValue == [k |-> "NoValue"]

\* Python's None, where a string is expected (a key, a name, a payload).
NoneS == "<None>"

Abs(i) == IF i < 0 THEN -i ELSE i

RECURSIVE GCD(_, _)
GCD(a, b) == IF b = 0 THEN a ELSE GCD(b, a % b)

\* The rational n/d, d # 0, in lowest terms with a positive denominator.
Num(n, d) ==
    LET g == GCD(Abs(n), Abs(d))
        s == IF d < 0 THEN -1 ELSE 1
    IN  [k |-> "num", n |-> (s * n) \div g, d |-> (s * d) \div g]

RAdd(a, b) == Num(a.n * b.d + b.n * a.d, a.d * b.d)
RSub(a, b) == Num(a.n * b.d - b.n * a.d, a.d * b.d)
RMul(a, b) == Num(a.n * b.n, a.d * b.d)
\* b is not zero: the inputs below keep 1 + q away from zero.
RDiv(a, b) == Num(a.n * b.d, a.d * b.n)
RInt(i) == Num(i, 1)
RLeq(a, b) == a.n * b.d <= b.n * a.d

\* np.log(q): opaque.
Log(q) == [k |-> "log", n |-> q.n, d |-> q.d]

\* The mass ratios and the spins input vectors are built from.  -1 is left
\* out: there 1 + q = 0 and the mapping formulas divide by zero.
MassRatios == {Num(1, 1), Num(2, 1)}
Spins == {Num(-1, 2), Num(1, 1)}

RECURSIVE SeqsUpTo(_, _)
SeqsUpTo(S, n) ==
    IF n = 0 THEN {<<>>}
    ELSE LET R == SeqsUpTo(S, n - 1)
         IN  R \cup {Append(s, e) : s \in {r \in R : Len(r) = n - 1}, e \in S}

\* The input vectors: empty, or a mass ratio followed by spins.
Inputs ==
    {<<>>} \cup {<<q>> \o s : q \in MassRatios, s \in SeqsUpTo(Spins, MaxLen - 1)}

(***************************************************************************)
(* Classes.  A class is identified by its defining module and its name;    *)
(* __name__ is the name alone.                                             *)
(***************************************************************************)
ThisModule == "gwsurrogate.new.nodeFunction"

Class(m, nm) == [mod |-> m, name |-> nm]

DummyNodeFunction == Class(ThisModule, "DummyNodeFunction")
Polyfit1D == Class(ThisModule, "Polyfit1D")
pySurrogateFit == Class(ThisModule, "pySurrogateFit")
NRHybSur3dq8Fit == Class(ThisModule, "NRHybSur3dq8Fit")
NRHybSur2dq15Fit == Class(ThisModule, "NRHybSur2dq15Fit")
MappedPolyFit1D_q10_q_to_nu == Class(ThisModule, "MappedPolyFit1D_q10_q_to_nu")

\* A class of another module that is named like a registered one.
OtherPolyfit1D == Class("elsewhere", "Polyfit1D")

PolyClasses == {Polyfit1D, MappedPolyFit1D_q10_q_to_nu}
FitClasses == {pySurrogateFit, NRHybSur3dq8Fit, NRHybSur2dq15Fit}

(***************************************************************************)
(* The warnings module: a process-wide list of filters, first match wins.  *)
(* A message is a sequence of symbols: "pv" stands for the words of the    *)
(* GPR message, "PV" for the same words in another letter case, "." for a  *)
(* full stop and "x" for any other text.                                   *)
(***************************************************************************)
\* The message argument of filterwarnings: the words, then a full stop.
PredVarMessage == <<"pv", ".">>

Fold(c) == IF c = "PV" THEN "pv" ELSE c

\* The message argument is a regular expression, compiled case-insensitive
\* and matched at the start of the warning's text; "." matches any symbol.
MsgMatch(pat, msg) ==
    /\ Len(msg) >= Len(pat)
    /\ \A i \in 1..Len(pat) : pat[i] = "." \/ Fold(pat[i]) = Fold(msg[i])

\* issubclass(category of the warning, category of the filter)
CatMatch(fc, wc) == fc = "Warning" \/ fc = wc

FilterMatches(f, w) == MsgMatch(f.message, w.msg) /\ CatMatch(f.category, w.cat)

RECURSIVE WarnAction(_, _)
\* The action the first matching filter gives; "default" when none matches.
WarnAction(fs, w) ==
    IF fs = <<>> THEN "default"
    ELSE IF FilterMatches(Head(fs), w) THEN Head(fs).action
    ELSE WarnAction(Tail(fs), w)

Filter(a, m, c) == [action |-> a, message |-> m, category |-> c]

\* warnings.filterwarnings(action, message=msg): category defaults to
\* Warning; an equal filter already in the list is removed, and the new one
\* goes to the front.
filterwarnings(fs, a, msg) ==
    LET item == Filter(a, msg, "Warning")
    IN  <<item>> \o SelectSeq(fs, LAMBDA f : f # item)

\* Mutant: the block is left without putting the saved list back.
CatchWarningsExit_NoRestore(saved, current) == current

\* catch_warnings.__exit__: the list saved by __enter__ is put back.
CatchWarningsExit(saved, current) == saved

\* The warnings a fit evaluator may emit during one call: the GPR message,
\* the same in another letter case and with more text, a shorter text, and
\* an unrelated one.
Emitted ==
    {[msg |-> <<"pv", ".">>, cat |-> "UserWarning"],
     [msg |-> <<"PV", ".", "x">>, cat |-> "RuntimeWarning"],
     [msg |-> <<"pv">>, cat |-> "UserWarning"],
     [msg |-> <<"x">>, cat |-> "UserWarning"]}

WarningRuns == {<<>>} \cup {<<w>> : w \in Emitted}

\* The filter lists the rest of the process may have installed.
FilterConfigs ==
    {<<>>,
     <<Filter("error", <<"x">>, "UserWarning"),
       Filter("ignore", PredVarMessage, "Warning"),
       Filter("ignore", <<>>, "RuntimeWarning")>>}

(***************************************************************************)
(* External collaborators, opaque.                                         *)
(***************************************************************************)
\* parametric_funcs.function_dict: the names it holds.
function_dict == {"polyval_1d"}

\* function_dict[name](coefs, x0)
ParamFunc(fname, coefs, x0) == [k |-> "poly", f |-> fname, c |-> coefs, at |-> x0]

\* evaluate_fit.getFitEvaluator(fit_data): determined by the payload.
getFitEvaluator(fit_data) == [k |-> "evaluator", fd |-> fit_data]

RECURSIVE WarnActions(_, _)
\* The action taken on each warning of a run, up to the first turned into
\* an error.
WarnActions(fs, ws) ==
    IF ws = <<>> THEN <<>>
    ELSE LET a == WarnAction(fs, Head(ws))
         IN  IF a = "error" THEN <<a>> ELSE <<a>> \o WarnActions(fs, Tail(ws))

\* fitFunc(x) under the filter list fs, the evaluator emitting ws: a warning
\* whose action is "error" is raised as an exception of its category.
FitEvaluatorCall(fitFunc, x, fs, ws) ==
    LET acts == WarnActions(fs, ws)
        n == Len(acts)
    IN  IF n > 0 /\ acts[n] = "error"
        THEN [err |-> ws[n].cat, out |-> NoValue, acts |-> acts]
        ELSE [err |-> "None",
              out |-> [k |-> "fit", fd |-> fitFunc.fd, at |-> x],
              acts |-> acts]

\* gwtools.q_to_nu(q) = q / (1 + q)^2
q_to_nu(q) == RDiv(q, RMul(RAdd(RInt(1), q), RAdd(RInt(1), q)))

(***************************************************************************)
(* The variants.  An instance is a record of its class and attributes.  A  *)
(* call returns [err, out, mapped, acts, filters]: the exception raised    *)
(* ("None": none), the value returned, the vector handed to the delegate,  *)
(* the action taken on each warning the evaluator emitted, and the filter  *)
(* list the call leaves behind.                                            *)
(***************************************************************************)
Outcome(e, o, m, a, fs) ==
    [err |-> e, out |-> o, mapped |-> m, acts |-> a, filters |-> fs]

DummyNodeFunction_init(return_value) ==
    [cls |-> DummyNodeFunction, val |-> return_value]

RECURSIVE Sum(_)
Sum(x) == IF x = <<>> THEN RInt(0) ELSE RAdd(Head(x), Sum(Tail(x)))

\* np.mean(x); nan for an empty vector
Mean(x) == IF x = <<>> THEN [k |-> "nan"] ELSE RDiv(Sum(x), RInt(Len(x)))

DummyNodeFunction_call(self, x, fs) ==
    IF self.val = NoneV
    THEN Outcome("None", Mean(x), <<>>, <<>>, fs)
    ELSE Outcome("None", self.val, <<>>, <<>>, fs)

\* Polyfit1D.__init__, also run for its subclass (cls).
Polyfit1D_init(cls, function_name, coefs) ==
    [cls |-> cls, function_name |-> function_name, coefs |-> coefs]

\* Mutant: the last element of x is used, not the first.
Polyfit1D_call_LastElement(self, x, fs) ==
    IF self.function_name \notin function_dict
    THEN Outcome("KeyError", NoValue, <<>>, <<>>, fs)
    ELSE IF Len(x) = 0
    THEN Outcome("IndexError", NoValue, <<>>, <<>>, fs)
    ELSE Outcome("None", ParamFunc(self.function_name, self.coefs, x[Len(x)]),
                 <<>>, <<>>, fs)

\* Polyfit1D.__call__: the table lookup comes first, then x[0].
Polyfit1D_call(self, x, fs) ==
    IF self.function_name \notin function_dict
    THEN Outcome("KeyError", NoValue, <<>>, <<>>, fs)
    ELSE IF Len(x) = 0
    THEN Outcome("IndexError", NoValue, <<>>, <<>>, fs)
    ELSE Outcome("None", ParamFunc(self.function_name, self.coefs, x[1]),
                 <<>>, <<>>, fs)

\* MappedPolyFit1D_q10_q_to_nu.__call__: 4 * q_to_nu(x), element by element.
MappedPolyFit1D_q10_q_to_nu_call(self, x, fs) ==
    LET mapped_x == [i \in 1..Len(x) |-> RMul(RInt(4), q_to_nu(x[i]))]
    IN  [Polyfit1D_call(self, mapped_x, fs) EXCEPT !.mapped = mapped_x]

\* Mutant: the hook does not rebuild the evaluator.
pySurrogateFit_h5_prepare_subs_Stale(self) == self

pySurrogateFit_h5_prepare_subs(self) ==
    [self EXCEPT !.fitFunc = getFitEvaluator(self.fit_data)]

\* pySurrogateFit.__init__, also run for its subclasses (cls).
pySurrogateFit_init(cls, name, fit_data) ==
    pySurrogateFit_h5_prepare_subs(
        [cls |-> cls, h5_data_keys |-> {"name", "fit_data"},
         name |-> name, fit_data |-> fit_data, fitFunc |-> NoneV])

pySurrogateFit_call(self, x, fs, ws) ==
    LET r == FitEvaluatorCall(self.fitFunc, x, fs, ws)
    IN  Outcome(r.err, r.out, x, r.acts, fs)

\* The body of the with block of both physics fits: the filter is added
\* inside catch_warnings, the base class is called, the block is left.
SuppressedCall(self, mapped_x, fs, ws) ==
    LET saved == fs
        during == filterwarnings(fs, "ignore", PredVarMessage)
        r == pySurrogateFit_call(self, mapped_x, during, ws)
    IN  [r EXCEPT !.filters = CatchWarningsExit(saved, during)]

NRHybSur3dq8Fit_map(x) ==
    LET q == x[1]
        chi1z == x[2]
        chi2z == x[3]
        eta == RDiv(q, RMul(RAdd(RInt(1), q), RAdd(RInt(1), q)))
        chi_wtAvg == RDiv(RAdd(RMul(q, chi1z), chi2z), RAdd(RInt(1), q))
        chiHat == RDiv(RSub(chi_wtAvg,
                            RMul(RDiv(RMul(RInt(38), eta), RInt(113)),
                                 RAdd(chi1z, chi2z))),
                       RSub(RInt(1), RDiv(RMul(RInt(76), eta), RInt(113))))
        chi_a == RDiv(RSub(chi1z, chi2z), RInt(2))
    IN  <<Log(q), chiHat, chi_a>>

NRHybSur3dq8Fit_call(self, x, fs, ws) ==
    IF Len(x) # 3
    THEN Outcome("ValueError", NoValue, <<>>, <<>>, fs)
    ELSE SuppressedCall(self, NRHybSur3dq8Fit_map(x), fs, ws)

\* Mutant: the subtracted term of chiHat is left out.
NRHybSur2dq15Fit_map_NoEtaTerm(x) ==
    LET q == x[1]
        chi1z == x[2]
        chi2z == RInt(0)
        eta == RDiv(q, RMul(RAdd(RInt(1), q), RAdd(RInt(1), q)))
        chi_wtAvg == RDiv(RAdd(RMul(q, chi1z), chi2z), RAdd(RInt(1), q))
        chiHat == RDiv(chi_wtAvg,
                       RSub(RInt(1), RDiv(RMul(RInt(76), eta), RInt(113))))
    IN  <<Log(q), chiHat>>

NRHybSur2dq15Fit_map(x) ==
    LET q == x[1]
        chi1z == x[2]
        chi2z == RInt(0)
        eta == RDiv(q, RMul(RAdd(RInt(1), q), RAdd(RInt(1), q)))
        chi_wtAvg == RDiv(RAdd(RMul(q, chi1z), chi2z), RAdd(RInt(1), q))
        chiHat == RDiv(RSub(chi_wtAvg,
                            RMul(RDiv(RMul(RInt(38), eta), RInt(113)),
                                 RAdd(chi1z, chi2z))),
                       RSub(RInt(1), RDiv(RMul(RInt(76), eta), RInt(113))))
    IN  <<Log(q), chiHat>>

NRHybSur2dq15Fit_call(self, x, fs, ws) ==
    IF Len(x) # 2
    THEN Outcome("ValueError", NoValue, <<>>, <<>>, fs)
    ELSE SuppressedCall(self, NRHybSur2dq15Fit_map(x), fs, ws)

\* An instance of the like-named class of another module: its own call.
OtherPolyfit1D_call(self, x, fs) ==
    Outcome("None", [k |-> "other", at |-> x], <<>>, <<>>, fs)

\* node_function(x): Python dispatches on the class of the instance.
VariantCall(v, x, fs, ws) ==
    CASE v.cls = DummyNodeFunction -> DummyNodeFunction_call(v, x, fs)
      [] v.cls = Polyfit1D -> Polyfit1D_call(v, x, fs)
      [] v.cls = MappedPolyFit1D_q10_q_to_nu ->
            MappedPolyFit1D_q10_q_to_nu_call(v, x, fs)
      [] v.cls = pySurrogateFit -> pySurrogateFit_call(v, x, fs, ws)
      [] v.cls = NRHybSur3dq8Fit -> NRHybSur3dq8Fit_call(v, x, fs, ws)
      [] v.cls = NRHybSur2dq15Fit -> NRHybSur2dq15Fit_call(v, x, fs, ws)
      [] v.cls = OtherPolyfit1D -> OtherPolyfit1D_call(v, x, fs)

\* cls(): the constructor called with no arguments.
New(cls) ==
    CASE cls = DummyNodeFunction -> DummyNodeFunction_init(NoneV)
      [] cls \in PolyClasses \cup {OtherPolyfit1D} -> Polyfit1D_init(cls, NoneS, NoneS)
      [] cls \in FitClasses -> pySurrogateFit_init(cls, NoneS, NoneS)

(***************************************************************************)
(* The registry and the holder.                                            *)
(***************************************************************************)
\* The keys of NODE_CLASSES in the order items() yields them.
NODE_KEYS ==
    <<"Dummy", "Polyfit1D", "SpEC_q10_non_spinning", "NRHybSur3dq8Fit",
      "NRHybSur2dq15Fit">>

\* Mutant: two keys name the same class.
NODE_CLASSES_Duplicate ==
    [key \in {NODE_KEYS[i] : i \in 1..Len(NODE_KEYS)} |->
        CASE key = "Dummy" -> DummyNodeFunction
          [] key = "Polyfit1D" -> Polyfit1D
          [] key = "SpEC_q10_non_spinning" -> Polyfit1D
          [] key = "NRHybSur3dq8Fit" -> NRHybSur3dq8Fit
          [] key = "NRHybSur2dq15Fit" -> NRHybSur2dq15Fit]

NODE_CLASSES ==
    [key \in {NODE_KEYS[i] : i \in 1..Len(NODE_KEYS)} |->
        CASE key = "Dummy" -> DummyNodeFunction
          [] key = "Polyfit1D" -> Polyfit1D
          [] key = "SpEC_q10_non_spinning" -> MappedPolyFit1D_q10_q_to_nu
          [] key = "NRHybSur3dq8Fit" -> NRHybSur3dq8Fit
          [] key = "NRHybSur2dq15Fit" -> NRHybSur2dq15Fit]

RECURSIVE ReverseLookup(_, _, _)
\* The loop of NodeFunction.__init__ over the items from position i on:
\* every item whose class is named like the instance's class overwrites the
\* key found so far.
ReverseLookup(cls, i, found) ==
    IF i > Len(NODE_KEYS) THEN found
    ELSE ReverseLookup(cls, i + 1,
            IF cls.name = NODE_CLASSES[NODE_KEYS[i]].name
            THEN NODE_KEYS[i] ELSE found)

\* Mutant: the class name is kept as the key.
NodeFunction_init_ClassName(name, node_function) ==
    IF node_function = NoneV
    THEN [err |-> "None",
          self |-> [name |-> name, node_function |-> NoneV, node_class |-> NoneS]]
    ELSE IF ReverseLookup(node_function.cls, 1, NoneS) = NoneS
    THEN [err |-> "Exception", self |-> NoneV]
    ELSE [err |-> "None",
          self |-> [name |-> name, node_function |-> node_function,
                    node_class |-> node_function.cls.name]]

\* NodeFunction(name, node_function): [err, self]; self is None when the
\* constructor raised.
NodeFunction_init(name, node_function) ==
    IF node_function = NoneV
    THEN [err |-> "None",
          self |-> [name |-> name, node_function |-> NoneV, node_class |-> NoneS]]
    ELSE LET node_class == ReverseLookup(node_function.cls, 1, NoneS)
         IN  IF node_class = NoneS
             THEN [err |-> "Exception", self |-> NoneV]
             ELSE [err |-> "None",
                   self |-> [name |-> name, node_function |-> node_function,
                             node_class |-> node_class]]

\* Mutant: a holder without a variant answers None.
NodeFunction_call_Silent(self, x, fs, ws) ==
    IF self.node_function = NoneV
    THEN Outcome("None", NoneV, <<>>, <<>>, fs)
    ELSE VariantCall(self.node_function, x, fs, ws)

\* NodeFunction.__call__
NodeFunction_call(self, x, fs, ws) ==
    IF self.node_function = NoneV
    THEN Outcome("TypeError", NoValue, <<>>, <<>>, fs)
    ELSE VariantCall(self.node_function, x, fs, ws)

\* Mutant: an unknown key falls back to the dummy.
NodeFunction_h5_prepare_subs_Fallback(self) ==
    [err |-> "None",
     self |-> [self EXCEPT !.node_function =
                  New(IF self.node_class \in DOMAIN NODE_CLASSES
                      THEN NODE_CLASSES[self.node_class]
                      ELSE DummyNodeFunction)]]

\* NodeFunction.h5_prepare_subs: [err, self]
NodeFunction_h5_prepare_subs(self) ==
    IF self.node_class \notin DOMAIN NODE_CLASSES
    THEN [err |-> "KeyError", self |-> self]
    ELSE [err |-> "None",
          self |-> [self EXCEPT !.node_function = New(NODE_CLASSES[self.node_class])]]

(***************************************************************************)
(* Persistence (SimpleH5Object, module saveH5Object).                      *)
(***************************************************************************)
\* h5_get_data: the attributes named by the data keys; all of them when the
\* class gave no data keys.
h5_get_data(v) ==
    LET keys == IF "h5_data_keys" \in DOMAIN v THEN v.h5_data_keys
                ELSE DOMAIN v \ {"cls"}
    IN  [a \in keys |-> v[a]]

\* h5_set_data: every stored item becomes an attribute.
h5_set_data(v, data) ==
    [a \in DOMAIN v |-> IF a \in DOMAIN data THEN data[a] ELSE v[a]]

\* The variant's own h5_prepare_subs: pySurrogateFit overrides the empty
\* default.
Variant_h5_prepare_subs(v) ==
    IF v.cls \in FitClasses THEN pySurrogateFit_h5_prepare_subs(v) ELSE v

\* _read_h5 of a variant: the data, then the hook.
Variant_read_h5(v, data) == Variant_h5_prepare_subs(h5_set_data(v, data))

\* _write_h5 of a holder: its data and, under the sub key, the variant's.
NodeFunction_write_h5(self) ==
    [name |-> self.name, node_class |-> self.node_class,
     node_function |-> h5_get_data(self.node_function)]

\* _read_h5 of a holder: the data, the hook, then the sub-object reads its
\* group.  [err, self]
NodeFunction_read_h5(self, f) ==
    LET loaded == [self EXCEPT !.name = f.name, !.node_class = f.node_class]
        r == NodeFunction_h5_prepare_subs(loaded)
    IN  IF r.err # "None" THEN r
        ELSE [err |-> "None",
              self |-> [r.self EXCEPT !.node_function =
                            Variant_read_h5(@, f.node_function)]]

(***************************************************************************)
(* The state machine.                                                      *)
(*   holder   the NodeFunction under consideration                         *)
(*   filters  the process-wide warnings filter list                        *)
(*   last     the last operation: its arguments and what it gave           *)
(***************************************************************************)
\* The live variants a holder is constructed from.
LiveVariants ==
    {DummyNodeFunction_init(v) : v \in {NoneV, Num(5, 1)}}
    \cup {Polyfit1D_init(c, "polyval_1d", "coefs") :
             c \in PolyClasses \cup {OtherPolyfit1D}}
    \cup {Polyfit1D_init(Polyfit1D, "bogus", "coefs")}
    \cup {pySurrogateFit_init(c, "fit", "gprA") : c \in FitClasses}
    \cup {pySurrogateFit_init(NRHybSur3dq8Fit, "fit", "gprB")}

\* A key no entry of the registry has.
UnknownKey == "TensorSpline"

\* What storage may hold: the record of a holder constructed from a live
\* variant, or such a record naming a class this registry does not know.
FileRecords ==
    LET written == {NodeFunction_write_h5(NodeFunction_init("node", v).self) :
                       v \in {u \in LiveVariants :
                                 NodeFunction_init("node", u).err = "None"}}
    IN  written \cup
        {[f EXCEPT !.node_class = UnknownKey] :
            f \in {g \in written : g.node_class = "Dummy"}}

Op(op, err, arg, x, ws, r) ==
    [op |-> op, err |-> err, arg |-> arg, x |-> x, warned |-> ws,
     out |-> r.out, mapped |-> r.mapped, acts |-> r.acts]

NoCall == [out |-> NoValue, mapped |-> <<>>, acts |-> <<>>]

Init ==
    /\ holder = NodeFunction_init("", NoneV).self
    /\ filters = <<>>
    /\ last = Op("init", "None", NoneV, <<>>, <<>>, NoCall)

\* h = NodeFunction()
ConstructEmpty ==
    /\ holder' = NodeFunction_init("", NoneV).self
    /\ last' = Op("construct_empty", "None", NoneV, <<>>, <<>>, NoCall)
    /\ UNCHANGED filters

\* h = NodeFunction("node", v): h stays what it was when the constructor
\* raises.
Construct(v) ==
    LET r == NodeFunction_init("node", v)
    IN  /\ holder' = IF r.err = "None" THEN r.self ELSE holder
        /\ last' = Op("construct", r.err, v, <<>>, <<>>, NoCall)
        /\ UNCHANGED filters

\* Whether h(x) gets as far as calling a fit evaluator.
ReachesEvaluator(h, x) ==
    /\ h.node_function # NoneV
    /\ \/ h.node_function.cls = NRHybSur3dq8Fit /\ Len(x) = 3
       \/ h.node_function.cls = NRHybSur2dq15Fit /\ Len(x) = 2

\* h(x); the fit evaluator, when it is called, emits the warnings ws
Evaluate(x, ws) ==
    /\ ws # <<>> => ReachesEvaluator(holder, x)
    /\ LET r == NodeFunction_call(holder, x, filters, ws)
       IN  /\ filters' = r.filters
           /\ last' = Op("call", r.err, NoneV, x, ws, r)
    /\ UNCHANGED holder

\* h.h5_prepare_subs()
H5PrepareSubs ==
    LET r == NodeFunction_h5_prepare_subs(holder)
    IN  /\ holder' = r.self
        /\ last' = Op("h5_prepare_subs", r.err, NoneV, <<>>, <<>>, NoCall)
        /\ UNCHANGED filters

\* The record f is read from storage, into the holder at hand or into a
\* holder constructed empty for it.
ReadH5(f, fresh) ==
    LET target == IF fresh THEN NodeFunction_init("", NoneV).self ELSE holder
        r == NodeFunction_read_h5(target, f)
    IN  /\ holder' = r.self
        /\ last' = Op("read_h5", r.err, f, <<>>, <<>>, NoCall)
        /\ UNCHANGED filters

\* The rest of the process installs its own warning filters.
SetFilters(fs) ==
    /\ filters' = fs
    /\ last' = Op("set_filters", "None", NoneV, <<>>, <<>>, NoCall)
    /\ UNCHANGED holder

Next ==
    \/ ConstructEmpty
    \/ \E v \in LiveVariants : Construct(v)
    \/ \E x \in Inputs, ws \in WarningRuns : Evaluate(x, ws)
    \/ H5PrepareSubs
    \/ \E f \in FileRecords, fresh \in BOOLEAN : ReadH5(f, fresh)
    \/ \E fs \in FilterConfigs : SetFilters(fs)

Spec == Init /\ [][Next]_vars

(***************************************************************************)
(* Properties                                                              *)
(***************************************************************************)
RegisteredTypes == {NODE_CLASSES[key] : key \in DOMAIN NODE_CLASSES}

Holds == holder.node_function # NoneV

\* Two variants answer every call alike: the same exception or value, the
\* same vector handed on, the same treatment of the evaluator's warnings.
SameCalls(v, w) ==
    \A x \in Inputs, ws \in WarningRuns, fs \in FilterConfigs :
        VariantCall(v, x, fs, ws) = VariantCall(w, x, fs, ws)

\* C1: a holder constructed from a live instance of a registered type and
\* then read back from its own record holds a variant of the same type that
\* answers every call as the original does.
C1_RoundTrip ==
    [][(/\ last.op = "construct" /\ last.err = "None"
        /\ holder.node_function.cls \in RegisteredTypes
        /\ last'.op = "read_h5"
        /\ last'.arg = NodeFunction_write_h5(holder))
       => /\ last'.err = "None"
          /\ holder'.node_function.cls = holder.node_function.cls
          /\ SameCalls(holder'.node_function, holder.node_function)]_vars

C1_Witness ==
    /\ last.op = "read_h5" /\ last.err = "None"
    /\ holder.node_function.cls = NRHybSur3dq8Fit
    /\ holder.node_function.fit_data = "gprB"
    /\ last.arg = NodeFunction_write_h5(holder)

\* C2: the registry is a bijection: no two keys name the same type, and a
\* holder constructed from an instance of a registered type gets exactly the
\* key of that type.
C2_RegistryBijective ==
    /\ \A k1, k2 \in DOMAIN NODE_CLASSES :
          NODE_CLASSES[k1] = NODE_CLASSES[k2] => k1 = k2
    /\ (last.op = "construct" /\ last.arg.cls \in RegisteredTypes)
       => /\ last.err = "None"
          /\ holder.node_function = last.arg
          /\ holder.node_class \in DOMAIN NODE_CLASSES
          /\ NODE_CLASSES[holder.node_class] = last.arg.cls

C2_Witness ==
    /\ last.op = "construct" /\ last.err = "None"
    /\ last.arg.cls = MappedPolyFit1D_q10_q_to_nu
    /\ holder.node_class = "SpEC_q10_non_spinning"

\* C3: construction from a live variant succeeds only for an instance whose
\* type is one of the registry's values; for any other type it fails with
\* the configuration error.
C3_OnlyRegisteredTypes ==
    last.op = "construct"
    => /\ last.err = "None" => last.arg.cls \in RegisteredTypes
       /\ last.arg.cls \notin RegisteredTypes => last.err = "Exception"

\* C4: h5_prepare_subs on a holder whose key is not a key of the registry
\* (or was never set) fails with the lookup error and leaves the holder, its
\* variant included, as it was.
C4_UnknownKeyFails ==
    [][(last'.op = "h5_prepare_subs" /\ holder.node_class \notin DOMAIN NODE_CLASSES)
       => /\ last'.err = "KeyError"
          /\ holder'.node_function = holder.node_function
          /\ holder' = holder]_vars

C4_Witness ==
    /\ last.op = "h5_prepare_subs" /\ last.err = "KeyError"
    /\ holder.node_class = UnknownKey
    /\ Holds

\* C5: a holder without a variant fails every call with an error and
\* returns nothing, and it stays without a variant through calls and failed
\* reconstructions.
C5_EmptyHolderFails ==
    [][/\ (~Holds /\ last'.op = "call")
          => /\ last'.err = "TypeError"
             /\ last'.out = NoValue
             /\ holder'.node_function = NoneV
       /\ (~Holds /\ last'.op \in {"h5_prepare_subs", "read_h5"}
                  /\ last'.err # "None")
          => holder'.node_function = NoneV]_vars

C5_Witness ==
    /\ last.op = "call" /\ last.err = "TypeError"
    /\ ~Holds
    /\ holder.node_class = UnknownKey

\* The variants with a documented arity, and that arity.
HasArity(cls) == cls \in PolyClasses \cup {NRHybSur3dq8Fit, NRHybSur2dq15Fit}

Arity(cls) ==
    CASE cls \in PolyClasses -> 1
      [] cls = NRHybSur3dq8Fit -> 3
      [] cls = NRHybSur2dq15Fit -> 2

FitVariants ==
    {v \in {holder.node_function, last.arg} :
        "cls" \in DOMAIN v /\ v.cls \in FitClasses}

\* C8: a fit-backed variant persists exactly name and fit_data, never the
\* evaluator; after construction and after every load its evaluator is the
\* one getFitEvaluator gives for its fit_data, so it answers every call as
\* any variant of its class with the same fit_data does.
C8_EvaluatorFromPayload ==
    \A v \in FitVariants :
        /\ DOMAIN h5_get_data(v) = {"name", "fit_data"}
        /\ v.fitFunc = getFitEvaluator(v.fit_data)
        /\ \A x \in Inputs, ws \in WarningRuns :
              VariantCall(v, x, filters, ws) =
                 VariantCall(pySurrogateFit_init(v.cls, "another", v.fit_data),
                             x, filters, ws)

C8_Witness ==
    /\ last.op = "read_h5" /\ last.err = "None"
    /\ holder.node_function.cls = NRHybSur2dq15Fit
    /\ holder.node_function.fit_data = "gprA"
    /\ holder.node_function.fitFunc = getFitEvaluator("gprA")

\* C9: for q >= 1 and chi1z in [-1, 1], what NRHybSur2dq15Fit hands its
\* evaluator for [q, chi1z] is the first two components of what
\* NRHybSur3dq8Fit hands its evaluator for [q, chi1z, 0].
C9_TwoParamIsThreeParamAtZero ==
    (/\ last.op = "call" /\ Holds
     /\ holder.node_function.cls = NRHybSur2dq15Fit
     /\ Len(last.x) = 2
     /\ RLeq(RInt(1), last.x[1])
     /\ RLeq(RInt(-1), last.x[2]) /\ RLeq(last.x[2], RInt(1)))
    => last.mapped =
          SubSeq(NRHybSur3dq8Fit_map(<<last.x[1], last.x[2], RInt(0)>>), 1, 2)

C9_Witness ==
    /\ last.op = "call" /\ last.err = "None"
    /\ holder.node_function.cls = NRHybSur2dq15Fit
    /\ last.x = <<Num(2, 1), Num(-1, 2)>>
    /\ Len(last.mapped) = 2

\* C10: whenever the holder holds a variant, its node_class is a key of the
\* registry and that key's type is the type of the held variant.
C10_KeyNamesHeldType ==
    Holds
    => /\ holder.node_class \in DOMAIN NODE_CLASSES
       /\ NODE_CLASSES[holder.node_class] = holder.node_function.cls

====
